---- MODULE Spec2Model ----
(***************************************************************************)
(* workbench-command-parser: the command parser state machine              *)
(* (CommandParser and the grammar nodes of parser.ts) and the tokenizer    *)
(* (tokenizer.ts), on a grammar graph laid out as the builders lay it out. *)
(*                                                                         *)
(* Strings are sequences of one-character strings, so that startsWith,     *)
(* slice and the character tests of the tokenizer are computed.            *)
(***************************************************************************)
EXTENDS Integers, Sequences, FiniteSets, TLC

VARIABLES
  currentNode,  \* CommandParser.currentNode
  nodes,        \* CommandParser.nodes     (history of accepted nodes)
  tokens,       \* CommandParser.tokens    (history of accepted tokens)
  commands,     \* CommandParser.commands  (matched commands)
  parameters,   \* CommandParser.parameters (Map name -> value)
  source,       \* the input text handed to tokenize
  lexed,        \* what tokenize returned for source
  pc,           \* position in the documented usage sequence
  op,           \* the last operation called on the parser
  arg,          \* the argument of that operation: the token of advance, the
                \* tokens of parse, the errorAccumulator handed to verify
  thrown,       \* what that operation threw ("none" when it returned)
  ret,          \* what verify returned
  errors,       \* the caller's errorAccumulator after verify
  executed,     \* the handlers run by the last execute, in order
  advanced,     \* the tokens the last parse handed to advance, in order
  result,       \* what the last getParameter, complete, match or
                \* longestCommonPrefix call returned
  graph,        \* the lists held by the node objects: successors_ and
                \* parameters_ of every node
  other,        \* a second CommandParser created on the same root node
  calls         \* the calls made on the first and on the second parser, each
                \* with what it returned

parserVars == <<currentNode, nodes, tokens, commands, parameters>>
vars == <<currentNode, nodes, tokens, commands, parameters, source, lexed, pc,
          op, arg, thrown, ret, errors, executed, advanced, result,
          graph, other, calls>>

(***************************************************************************)
(* Bounds                                                                  *)
(***************************************************************************)
MaxHistory == 4
MaxPieces == 3
MaxOptions == 3
MaxOptionLen == 2
MaxChars == 4
MaxSuccessors == 2
MaxCalls == 2
MaxBuilds == 3
MaxCompleteOptions == 2
MaxOtherOptions == 1

(***************************************************************************)
(* Strings                                                                 *)
(***************************************************************************)
IsPrefix(t, s) == Len(t) <= Len(s) /\ SubSeq(s, 1, Len(t)) = t

\* text.slice(from, to) with 0-based from and exclusive to
slice(text, from, to) ==
  IF to <= from THEN <<>>
  ELSE SubSeq(text, from + 1, IF to > Len(text) THEN Len(text) ELSE to)

Range(s) == {s[i] : i \in 1..Len(s)}

RECURSIVE SelectSeqBy(_, _)
\* Array.prototype.filter with the membership of the kept elements given as a set
SelectSeqBy(s, keep) ==
  IF s = <<>> THEN <<>>
  ELSE IF Head(s) \in keep THEN <<Head(s)>> \o SelectSeqBy(Tail(s), keep)
       ELSE SelectSeqBy(Tail(s), keep)

sShow == <<"s", "h", "o", "w">>
sSet == <<"s", "e", "t">>
sInterface == <<"i", "n", "t", "e", "r", "f", "a", "c", "e">>
sTest == <<"t", "e", "s", "t">>
sHelp == <<"h", "e", "l", "p">>
sDebug == <<"d", "e", "b", "u", "g">>
sRe == <<"r", "e">>
sArp == <<"a", "r", "p">>
sSpace == <<" ">>

(***************************************************************************)
(* The grammar graph: the node objects a caller builds once and shares.    *)
(*   root -> show -> interface          (two nested commands)              *)
(*        -> set                        (a command node without handler)   *)
(*        -> test  with parameters p, q (simple, required), r (simple,     *)
(*                 repeatable, named "re"), f (flag) and the named         *)
(*                 parameter n with the alias m                            *)
(*        -> help                       (a WrapperNode around root)        *)
(*        -> debug                      (a command whose hidden_ is set)   *)
(***************************************************************************)
NoNode == "none"

NodeIds == {"root", "show", "interface", "set", "test", "p", "q", "r", "f",
            "n.name", "n.alias", "n", "help", "debug"}

kind ==
  [x \in NodeIds |->
     CASE x = "root" -> "RootNode"
       [] x \in {"show", "interface", "set", "test", "debug"} -> "CommandNode"
       [] x = "help" -> "WrapperNode"
       [] x \in {"n.name", "n.alias"} -> "ParameterNameNode"
       [] x = "f" -> "FlagNode"
       [] OTHER -> "ParameterNode"]

symbol ==
  [x \in NodeIds |->
     CASE x = "root" -> <<>>
       [] x = "show" -> sShow
       [] x = "interface" -> sInterface
       [] x = "set" -> sSet
       [] x = "test" -> sTest
       [] x = "help" -> sHelp
       [] x = "debug" -> sDebug
       [] x = "r" -> sRe
       [] x = "n.name" -> <<"n">>
       [] x = "n.alias" -> <<"m">>
       [] OTHER -> <<x>>]

\* CommandNode.handler: does the node carry a handler function?
handler == [x \in NodeIds |-> x \in {"show", "interface", "test", "debug"}]

\* ParserNode.hidden_
hidden_ == [x \in NodeIds |-> x = "debug"]

\* ParserNode.successors_ : the node's own list, in addSuccessor order
successors_ ==
  [x \in NodeIds |->
     CASE x = "root" -> <<"show", "set", "test", "help", "debug">>
       [] x = "show" -> <<"interface">>
       [] x = "test" -> <<"p", "q", "r", "f", "n.name", "n.alias">>
       [] x \in {"n.name", "n.alias"} -> <<"n">>
       [] OTHER -> <<>>]

\* CommandNode.parameters_ : in addParameter order
parameters_ ==
  [x \in NodeIds |-> IF x = "test" THEN <<"p", "q", "r", "f", "n">> ELSE <<>>]

\* ParameterNode.command
command ==
  [x \in NodeIds |-> IF x \in {"p", "q", "r", "f", "n"} THEN "test" ELSE NoNode]

\* WrapperNode.root
root == [x \in NodeIds |-> IF x = "help" THEN "root" ELSE NoNode]

\* ParameterOptions
repeatable == [x \in NodeIds |-> x = "r"]
required == [x \in NodeIds |-> x \in {"p", "q"}]
repeatMarker == [x \in NodeIds |-> IF x = "n" THEN "n" ELSE NoNode]

\* ParameterNode.parameterKind
parameterKind ==
  [x \in NodeIds |->
     CASE x \in {"p", "q", "r"} -> "Simple"
       [] x = "f" -> "Flag"
       [] x = "n" -> "Named"
       [] OTHER -> "none"]

\* the ParameterNameNodes that buildNamedParameter makes for a parameter: the
\* one for its name, then one for each alias
nameNodes == [x \in NodeIds |-> IF x = "n" THEN <<"n.name", "n.alias">> ELSE <<>>]

IsParameter(x) == kind[x] \in {"ParameterNode", "FlagNode"}

RECURSIVE successorsOfOwnList(_, _)
\* the successors getter with WrapperNode answering from its own list
successorsOfOwnList(g, x) ==
  CASE IsParameter(x) ->
         IF command[x] # NoNode THEN successorsOfOwnList(g, command[x]) \o g[x]
         ELSE g[x]
    [] OTHER -> g[x]

RECURSIVE successorsOfCommandOnly(_, _)
\* the successors getter with ParameterNode leaving out its own list
successorsOfCommandOnly(g, x) ==
  CASE kind[x] = "WrapperNode" -> successorsOfCommandOnly(g, root[x])
    [] IsParameter(x) ->
         IF command[x] # NoNode THEN successorsOfCommandOnly(g, command[x])
         ELSE g[x]
    [] OTHER -> g[x]

RECURSIVE successorsOf(_, _)
\* the successors getter of node x when the nodes hold the successors_ lists g
successorsOf(g, x) ==
  CASE kind[x] = "WrapperNode" -> successorsOf(g, root[x])
    [] IsParameter(x) ->
         IF command[x] # NoNode THEN successorsOf(g, command[x]) \o g[x]
         ELSE g[x]
    [] OTHER -> g[x]

\* the successors getter on the built grammar
successors(x) == successorsOf(successors_, x)

\* the lists of the built grammar, and those of freshly constructed nodes
BuiltGraph == [successors_ |-> successors_, parameters_ |-> parameters_]
EmptyGraph == [successors_ |-> [x \in NodeIds |-> <<>>],
               parameters_ |-> [x \in NodeIds |-> <<>>]]

(***************************************************************************)
(* Tokens and captured values                                              *)
(***************************************************************************)
Token(text, tokenType, startChar, endChar) ==
  [text |-> text, tokenType |-> tokenType, startChar |-> startChar, endChar |-> endChar]

makeToken(text) == Token(text, "Word", 0, 0)

StrVal(text) == [tag |-> "string", str |-> text, items |-> <<>>]
TrueVal == [tag |-> "boolean", str |-> <<>>, items |-> <<>>]
ListVal(items) == [tag |-> "array", str |-> <<>>, items |-> items]
Undefined == [tag |-> "undefined", str |-> <<>>, items |-> <<>>]

\* JavaScript truthiness of a captured value (the operand of ||)
Truthy(v) == v.tag # "undefined" /\ (v.tag # "string" \/ v.str # <<>>)

(***************************************************************************)
(* CommandParser                                                           *)
(***************************************************************************)
Parser(cur, ns, ts, cs, ps) ==
  [currentNode |-> cur, nodes |-> ns, tokens |-> ts, commands |-> cs, parameters |-> ps]

NewParser(initialNode) == Parser(initialNode, <<>>, <<>>, <<>>, <<>>)

Self == Parser(currentNode, nodes, tokens, commands, parameters)

\* Map.has / Map.set on a function whose domain is the set of keys
Has(m, k) == k \in DOMAIN m
Put(m, k, v) == [x \in (DOMAIN m) \cup {k} |-> IF x = k THEN v ELSE m[x]]

\* Map.get: undefined for a key that is not in the map
Get(m, k) == IF Has(m, k) THEN m[k] ELSE Undefined

getParameter(P, name, defaultValue) ==
  IF Truthy(Get(P.parameters, name)) THEN Get(P.parameters, name) ELSE defaultValue

pushCommand(P, c) == [P EXCEPT !.commands = Append(@, c)]

\* nodeSeen kept as a mark on the node object, which every parser on the
\* graph reads and writes
nodeSeenOnNode(P, node) ==
  \/ \E i \in 1..Len(P.nodes) : P.nodes[i] = node
  \/ \E i \in 1..Len(nodes) : nodes[i] = node
  \/ \E i \in 1..Len(other.nodes) : other.nodes[i] = node

nodeSeen(P, node) == \E i \in 1..Len(P.nodes) : P.nodes[i] = node

\* pushNode without the assignment to currentNode
pushNodeKeepingCurrent(P, token, node) ==
  [P EXCEPT !.nodes = Append(@, node),
            !.tokens = Append(@, token)]

pushNode(P, token, node) ==
  [P EXCEPT !.currentNode = node,
            !.nodes = Append(@, node),
            !.tokens = Append(@, token)]

\* pushParameter keeping only the parameter just captured
pushParameterAlone(P, param, value) ==
  IF repeatable[param]
  THEN LET old == IF Has(P.parameters, symbol[param]) /\ Truthy(P.parameters[symbol[param]])
                  THEN P.parameters[symbol[param]]
                  ELSE ListVal(<<>>)
       IN [P EXCEPT !.parameters = Put(<<>>, symbol[param], ListVal(Append(old.items, value)))]
  ELSE [P EXCEPT !.parameters = Put(<<>>, symbol[param], value)]

\* pushParameter starting a new list at every capture of a repeatable parameter
pushParameterFreshList(P, param, value) ==
  IF repeatable[param]
  THEN [P EXCEPT !.parameters = Put(@, symbol[param], ListVal(<<value>>))]
  ELSE [P EXCEPT !.parameters = Put(@, symbol[param], value)]

pushParameter(P, param, value) ==
  IF repeatable[param]
  THEN LET old == IF Has(P.parameters, symbol[param]) /\ Truthy(P.parameters[symbol[param]])
                  THEN P.parameters[symbol[param]]
                  ELSE ListVal(<<>>)
       IN [P EXCEPT !.parameters = Put(@, symbol[param], ListVal(Append(old.items, value)))]
  ELSE [P EXCEPT !.parameters = Put(@, symbol[param], value)]

convert(node, token) ==
  IF kind[node] = "FlagNode" THEN TrueVal ELSE StrVal(token.text)

accept(P, node, token) ==
  CASE kind[node] \in {"CommandNode", "WrapperNode"} ->
         IF handler[node] THEN pushCommand(P, node) ELSE P
    [] IsParameter(node) -> pushParameter(P, node, convert(node, token))
    [] OTHER -> P

\* acceptable with every parameter treated as repeatable
acceptableParameterAlways(P, node) ==
  IF IsParameter(node) THEN TRUE ELSE ~nodeSeen(P, node)

acceptable(P, node) ==
  IF IsParameter(node)
  THEN IF repeatable[node] THEN TRUE
       ELSE ~nodeSeen(P, node) /\
            (repeatMarker[node] = NoNode \/ ~nodeSeen(P, repeatMarker[node]))
  ELSE ~nodeSeen(P, node)

\* RootNode.match throws instead of answering
matchThrows(node) == kind[node] = "RootNode"

\* String.prototype.lastIndexOf
LastIndexOf(s, t) ==
  LET at == {i \in 0..(Len(s) - Len(t)) : SubSeq(s, i + 1, i + Len(t)) = t} IN
  IF at = {} THEN -1 ELSE CHOOSE i \in at : \A j \in at : j <= i

\* match through the lastIndexOf polyfill of the earlier parser
matchLastIndexOf(node, token) == LastIndexOf(symbol[node], token.text) = 0

match(node, token) == IsPrefix(token.text, symbol[node])

matchingSuccessors(P, node, token) ==
  SelectSeqBy(successors(node),
              {x \in Range(successors(node)) : acceptable(P, x) /\ match(x, token)})

\* possibleCompletions without the test on hidden_
possibleCompletionsWithHidden(P, node, token) ==
  SelectSeqBy(successors(node),
              {x \in Range(successors(node)) :
                 acceptable(P, x) /\ (token = <<>> \/ match(x, token[1]))})

\* possibleCompletions that does not filter by the partial token
possibleCompletionsIgnoringToken(P, node, token) ==
  SelectSeqBy(successors(node),
              {x \in Range(successors(node)) : ~hidden_[x] /\ acceptable(P, x)})

possibleCompletions(P, node, token) ==
  SelectSeqBy(successors(node),
              {x \in Range(successors(node)) :
                 /\ ~hidden_[x]
                 /\ acceptable(P, x)
                 /\ (token = <<>> \/ match(x, token[1]))})

RECURSIVE lcpLoopSkippingLast(_, _, _)
\* the inner loop stopping one option short of the end of the list
lcpLoopSkippingLast(options, i, j) ==
  IF j >= (IF Len(options) > 1 THEN Len(options) - 1 ELSE 1)
  THEN lcpLoopSkippingLast(options, i + 1, 0)
  ELSE LET first == options[1]
           option == options[j + 1]
       IN IF i = Len(option) \/ option[i + 1] # first[i + 1]
          THEN slice(first, 0, i)
          ELSE lcpLoopSkippingLast(options, i, j + 1)

RECURSIVE lcpLoop(_, _, _)
\* the two loops of longestCommonPrefix: i counts characters, j walks the options
lcpLoop(options, i, j) ==
  IF j >= Len(options) THEN lcpLoop(options, i + 1, 0)
  ELSE LET first == options[1]
           option == options[j + 1]
       IN IF i = Len(option) \/ option[i + 1] # first[i + 1]
          THEN slice(first, 0, i)
          ELSE lcpLoop(options, i, j + 1)

longestCommonPrefix(options) ==
  IF Len(options) > 0 THEN lcpLoop(options, 0, 0) ELSE <<>>

CompletionOption(optionString, complete) ==
  [optionString |-> optionString, complete |-> complete]

\* CompletionConfig; an option list that is left out is the empty list
CompletionConfig(exhaustive, completeOptions, otherOptions) ==
  [exhaustive |-> exhaustive, completeOptions |-> completeOptions,
   otherOptions |-> otherOptions]

\* ParameterNode.helpSymbol
parameterHelpSymbol(node) ==
  <<"<">> \o symbol[node] \o <<">">> \o
  (IF repeatable[node] THEN <<".", ".", ".">> ELSE <<>>)

helpSymbol(node) ==
  CASE kind[node] = "RootNode" -> <<"<", ".", ".", ".", ">">>
    [] kind[node] = "ParameterNode" -> parameterHelpSymbol(node)
    [] kind[node] = "ParameterNameNode" ->
         symbol[node] \o parameterHelpSymbol(successors_[node][1])
    [] OTHER -> symbol[node]

helpText(node) ==
  CASE kind[node] = "RootNode" -> "No help."
    [] kind[node] \in {"ParameterNode", "ParameterNameNode"} -> "Parameter"
    [] kind[node] = "FlagNode" -> "Flag"
    [] OTHER -> ""

\* new Completion that adds the longest common prefix without looking for it
\* among the options
CompletionRepeatingPrefix(node, token, options) ==
  LET exhaustive == IF options.exhaustive = "undefined" THEN options.exhaustive
                    ELSE "false"
      startsWithToken(list) ==
        SelectSeqBy(list, {o \in Range(list) : IsPrefix(token[1].text, o)})
      completeOptions == IF token # <<>> THEN startsWithToken(options.completeOptions)
                         ELSE options.completeOptions
      filtered == IF token # <<>> THEN startsWithToken(options.otherOptions)
                  ELSE options.otherOptions
      withToken == IF /\ token # <<>>
                      /\ exhaustive # "true"
                      /\ token[1].text \notin Range(completeOptions)
                      /\ token[1].text \notin Range(filtered)
                   THEN Append(filtered, token[1].text)
                   ELSE filtered
      allOptions == completeOptions \o withToken
      lcp == longestCommonPrefix(allOptions)
      otherOptions == IF /\ lcp # <<>>
                         /\ (token = <<>> \/ lcp # token[1].text)
                      THEN Append(withToken, lcp)
                      ELSE withToken
  IN [node |-> node,
      token |-> token,
      helpSymbol |-> helpSymbol(node),
      helpText |-> helpText(node),
      exhaustive |-> exhaustive,
      options |-> [k \in 1..Len(completeOptions) |->
                     CompletionOption(completeOptions[k], TRUE)] \o
                  [k \in 1..Len(otherOptions) |->
                     CompletionOption(otherOptions[k], FALSE)]]

\* new Completion(node, token, options); token is <<>> when none was given.
\* exhaustive is "true", "false" or "undefined".
Completion(node, token, options) ==
  LET exhaustive == IF options.exhaustive = "undefined" THEN options.exhaustive
                    ELSE "false"
      startsWithToken(list) ==
        SelectSeqBy(list, {o \in Range(list) : IsPrefix(token[1].text, o)})
      completeOptions == IF token # <<>> THEN startsWithToken(options.completeOptions)
                         ELSE options.completeOptions
      filtered == IF token # <<>> THEN startsWithToken(options.otherOptions)
                  ELSE options.otherOptions
      withToken == IF /\ token # <<>>
                      /\ exhaustive # "true"
                      /\ token[1].text \notin Range(completeOptions)
                      /\ token[1].text \notin Range(filtered)
                   THEN Append(filtered, token[1].text)
                   ELSE filtered
      allOptions == completeOptions \o withToken
      lcp == longestCommonPrefix(allOptions)
      otherOptions == IF /\ lcp # <<>>
                         /\ lcp \notin Range(allOptions)
                         /\ (token = <<>> \/ lcp # token[1].text)
                      THEN Append(withToken, lcp)
                      ELSE withToken
  IN [node |-> node,
      token |-> token,
      helpSymbol |-> helpSymbol(node),
      helpText |-> helpText(node),
      exhaustive |-> exhaustive,
      options |-> [k \in 1..Len(completeOptions) |->
                     CompletionOption(completeOptions[k], TRUE)] \o
                  [k \in 1..Len(otherOptions) |->
                     CompletionOption(otherOptions[k], FALSE)]]

\* node.complete(parser, token); RootNode.complete throws instead
completeThrows(node) == kind[node] = "RootNode"

nodeComplete(node, token) ==
  IF kind[node] = "ParameterNode"
  THEN Completion(node, token, CompletionConfig("true", <<>>, <<>>))
  ELSE Completion(node, token, CompletionConfig("true", <<symbol[node]>>, <<>>))

RECURSIVE mapComplete(_, _)
mapComplete(list, token) ==
  IF list = <<>> THEN <<>>
  ELSE <<nodeComplete(Head(list), token)>> \o mapComplete(Tail(list), token)

\* CommandParser.complete(token?)
complete(P, token) ==
  LET completions == possibleCompletions(P, P.currentNode, token) IN
  IF \E x \in Range(completions) : completeThrows(x)
  THEN [thrown |-> "BUG: Tried to complete a root node.", completions |-> <<>>]
  ELSE [thrown |-> "none", completions |-> mapComplete(completions, token)]

\* advance that records the token before it reports that nothing matched
advanceRecordingFailure(P, token) ==
  LET possibleMatches == matchingSuccessors(P, P.currentNode, token) IN
  IF Len(possibleMatches) = 1
  THEN [parser |-> pushNode(accept(P, possibleMatches[1], token), token, possibleMatches[1]),
        thrown |-> "none"]
  ELSE IF Len(possibleMatches) = 0
  THEN [parser |-> [P EXCEPT !.tokens = Append(@, token)], thrown |-> "No matches"]
  ELSE [parser |-> P, thrown |-> "Ambiguous match."]

\* advance that takes the first candidate, in declaration order, when several match
advanceFirstMatch(P, token) ==
  LET possibleMatches == matchingSuccessors(P, P.currentNode, token) IN
  IF Len(possibleMatches) >= 1
  THEN [parser |-> pushNode(accept(P, possibleMatches[1], token), token, possibleMatches[1]),
        thrown |-> "none"]
  ELSE [parser |-> P, thrown |-> "No matches"]

advance(P, token) ==
  LET possibleMatches == matchingSuccessors(P, P.currentNode, token) IN
  IF \E x \in Range(successors(P.currentNode)) : acceptable(P, x) /\ matchThrows(x)
  THEN [parser |-> P, thrown |-> "BUG: Tried to match a root node."]
  ELSE IF Len(possibleMatches) = 1
  THEN [parser |-> pushNode(accept(P, possibleMatches[1], token), token, possibleMatches[1]),
        thrown |-> "none"]
  ELSE IF Len(possibleMatches) = 0
  THEN [parser |-> P, thrown |-> "No matches"]
  ELSE [parser |-> P, thrown |-> "Ambiguous match."]

\* execute that returns quietly when no command has matched
executeQuietWithoutCommand(P) ==
  IF Len(P.commands) > 0
  THEN [thrown |-> "none", executed |-> <<P.commands[Len(P.commands)]>>]
  ELSE [thrown |-> "none", executed |-> <<>>]

execute(P) ==
  IF Len(P.commands) > 0
  THEN [thrown |-> "none", executed |-> <<P.commands[Len(P.commands)]>>]
  ELSE [thrown |-> "No command.", executed |-> <<>>]

MissingMessage(name) == [msg |-> "Missing required parameter", name |-> name]
IncompleteMessage == [msg |-> "Incomplete command.", name |-> <<>>]

RECURSIVE verifyEachStopAtFirst(_, _, _)
\* the loop leaving at the first missing required parameter
verifyEachStopAtFirst(expected, provided, errorAccumulator) ==
  IF expected = <<>> THEN errorAccumulator
  ELSE IF required[Head(expected)] /\ ~Has(provided, symbol[Head(expected)])
       THEN Append(errorAccumulator, MissingMessage(symbol[Head(expected)]))
       ELSE verifyEachStopAtFirst(Tail(expected), provided, errorAccumulator)

RECURSIVE verifyEach(_, _, _)
\* expected.forEach(...): the callback's return value is discarded
verifyEach(expected, provided, errorAccumulator) ==
  IF expected = <<>> THEN errorAccumulator
  ELSE verifyEach(Tail(expected), provided,
         IF required[Head(expected)] /\ ~Has(provided, symbol[Head(expected)])
         THEN Append(errorAccumulator, MissingMessage(symbol[Head(expected)]))
         ELSE errorAccumulator)

\* verify that reports the incomplete command but falls through to return true
verifyFallingThrough(P, errorAccumulator) ==
  IF Len(P.commands) > 0
  THEN [ret |-> TRUE,
        errors |-> verifyEach(parameters_[P.commands[Len(P.commands)]], P.parameters,
                              errorAccumulator)]
  ELSE [ret |-> TRUE, errors |-> Append(errorAccumulator, IncompleteMessage)]

verify(P, errorAccumulator) ==
  IF Len(P.commands) > 0
  THEN [ret |-> TRUE,
        errors |-> verifyEach(parameters_[P.commands[Len(P.commands)]], P.parameters,
                              errorAccumulator)]
  ELSE [ret |-> FALSE, errors |-> Append(errorAccumulator, IncompleteMessage)]

(***************************************************************************)
(* tokenize                                                                *)
(***************************************************************************)
IsSpace(c) == c \in {" ", "\t"}      \* /\s/.test(c)
IsNonSpace(c) == ~IsSpace(c)         \* /\S/.test(c)
IsCapitalS(c) == c = "S"             \* /S/.test(c)

Lexer(toks, state, tokenType, tokenStart, tokenEnd, thr) ==
  [tokens |-> toks, state |-> state, tokenType |-> tokenType,
   tokenStart |-> tokenStart, tokenEnd |-> tokenEnd, thrown |-> thr]

reset(L) == Lexer(L.tokens, "Initial", "Invalid", 0, 0, L.thrown)

\* reduce slicing up to tokenEnd exclusive
reduceExclusiveEnd(L, text) ==
  reset([L EXCEPT !.tokens =
           Append(@, Token(slice(text, L.tokenStart, L.tokenEnd), L.tokenType,
                           L.tokenStart, L.tokenEnd))])

reduce(L, text) ==
  reset([L EXCEPT !.tokens =
           Append(@, Token(slice(text, L.tokenStart, L.tokenEnd + 1), L.tokenType,
                           L.tokenStart, L.tokenEnd))])

recognize(L, nextState, offset) ==
  IF L.tokenType = "Invalid"
  THEN [L EXCEPT !.tokenType = IF nextState = "Whitespace" THEN "Whitespace" ELSE "Word",
                 !.tokenStart = offset]
  ELSE L

shift(L, nextState, offset) ==
  [recognize(L, nextState, offset) EXCEPT !.tokenEnd = offset, !.state = nextState]

special(L, text, offset) == reduce(shift(L, "Special", offset), text)

throw(L, message) == [L EXCEPT !.thrown = message]

initial(L, text, c, offset) ==
  CASE IsSpace(c) -> shift(L, "Whitespace", offset)
    [] c \in {";", "?", "|"} -> special(L, text, offset)
    [] c = "\"" -> shift(L, "Doublequote", offset)
    [] c = "\\" -> shift(recognize(L, "Word", offset), "WordBackslash", offset)
    [] OTHER -> shift(L, "Word", offset)

\* the loop body without the escape state inside quotes
lexCharQuoteNoEscape(L, text, c, offset) ==
  CASE L.state = "Initial" -> initial(L, text, c, offset)
    [] L.state = "Whitespace" ->
         IF IsSpace(c) THEN shift(L, "Whitespace", offset)
         ELSE initial(reduce(L, text), text, c, offset)
    [] L.state = "Word" ->
         CASE IsSpace(c) -> shift(reduce(L, text), "Whitespace", offset)
           [] c \in {";", "|"} -> special(reduce(L, text), text, offset)
           [] c = "\"" -> shift(reduce(L, text), "Doublequote", offset)
           [] c = "\\" -> shift(L, "WordBackslash", offset)
           [] OTHER -> shift(L, "Word", offset)
    [] L.state = "WordBackslash" ->
         IF IsCapitalS(c) THEN shift(L, "Word", offset)
         ELSE throw(L, "Character not allowed here.")
    [] L.state = "Doublequote" ->
         CASE c = "\"" -> reduce(shift(L, "Doublequote", offset), text)
           [] OTHER -> shift(L, "Doublequote", offset)
    [] L.state = "DoublequoteBackslash" ->
         IF IsNonSpace(c) THEN shift(L, "Doublequote", offset)
         ELSE throw(L, "Character not allowed here.")
    [] OTHER -> L

\* the loop body reducing at every whitespace character
lexCharSplittingWhitespace(L, text, c, offset) ==
  CASE L.state = "Initial" -> initial(L, text, c, offset)
    [] L.state = "Whitespace" ->
         IF IsSpace(c) THEN shift(reduce(L, text), "Whitespace", offset)
         ELSE initial(reduce(L, text), text, c, offset)
    [] L.state = "Word" ->
         CASE IsSpace(c) -> shift(reduce(L, text), "Whitespace", offset)
           [] c \in {";", "|"} -> special(reduce(L, text), text, offset)
           [] c = "\"" -> shift(reduce(L, text), "Doublequote", offset)
           [] c = "\\" -> shift(L, "WordBackslash", offset)
           [] OTHER -> shift(L, "Word", offset)
    [] L.state = "WordBackslash" ->
         IF IsCapitalS(c) THEN shift(L, "Word", offset)
         ELSE throw(L, "Character not allowed here.")
    [] L.state = "Doublequote" ->
         CASE c = "\"" -> reduce(shift(L, "Doublequote", offset), text)
           [] c = "\\" -> shift(L, "DoublequoteBackslash", offset)
           [] OTHER -> shift(L, "Doublequote", offset)
    [] L.state = "DoublequoteBackslash" ->
         IF IsNonSpace(c) THEN shift(L, "Doublequote", offset)
         ELSE throw(L, "Character not allowed here.")
    [] OTHER -> L

\* the body of the for loop for one character
lexChar(L, text, c, offset) ==
  CASE L.state = "Initial" -> initial(L, text, c, offset)
    [] L.state = "Whitespace" ->
         IF IsSpace(c) THEN shift(L, "Whitespace", offset)
         ELSE initial(reduce(L, text), text, c, offset)
    [] L.state = "Word" ->
         CASE IsSpace(c) -> shift(reduce(L, text), "Whitespace", offset)
           [] c \in {";", "|"} -> special(reduce(L, text), text, offset)
           [] c = "\"" -> shift(reduce(L, text), "Doublequote", offset)
           [] c = "\\" -> shift(L, "WordBackslash", offset)
           [] OTHER -> shift(L, "Word", offset)
    [] L.state = "WordBackslash" ->
         IF IsCapitalS(c) THEN shift(L, "Word", offset)
         ELSE throw(L, "Character not allowed here.")
    [] L.state = "Doublequote" ->
         CASE c = "\"" -> reduce(shift(L, "Doublequote", offset), text)
           [] c = "\\" -> shift(L, "DoublequoteBackslash", offset)
           [] OTHER -> shift(L, "Doublequote", offset)
    [] L.state = "DoublequoteBackslash" ->
         IF IsNonSpace(c) THEN shift(L, "Doublequote", offset)
         ELSE throw(L, "Character not allowed here.")
    [] OTHER -> L

\* the switch after the loop
endOfSource(L, text) ==
  CASE L.state = "Initial" -> L
    [] L.state \in {"Word", "Whitespace"} -> reduce(L, text)
    [] L.state = "WordBackslash" -> L
    [] L.state = "Doublequote" -> throw(L, "Escaping backslash at end of file.")
    [] L.state = "DoublequoteBackslash" -> throw(L, "Unclosed double quote at end of file.")
    [] OTHER -> throw(L, "BUG: Unknown lexer state at end of file.")

RECURSIVE lexFrom(_, _, _)
lexFrom(L, text, offset) ==
  IF L.thrown # "none" THEN L
  ELSE IF offset < Len(text)
  THEN lexFrom(lexChar(L, text, text[offset + 1], offset), text, offset + 1)
  ELSE endOfSource(L, text)

\* [thrown |-> "none", tokens |-> the returned array] or [thrown |-> message, tokens |-> <<>>]
tokenize(text) ==
  LET L == lexFrom(Lexer(<<>>, "Initial", "Invalid", 0, 0, "none"), text, 0) IN
  [thrown |-> L.thrown, tokens |-> IF L.thrown = "none" THEN L.tokens ELSE <<>>]

(***************************************************************************)
(* CommandParser.parse                                                     *)
(***************************************************************************)
RECURSIVE parseFromEveryToken(_, _, _)
\* parse without the test of the token type
parseFromEveryToken(P, toks, fed) ==
  IF toks = <<>> THEN [parser |-> P, thrown |-> "none", advanced |-> fed]
  ELSE LET r == advance(P, Head(toks)) IN
       IF r.thrown # "none"
       THEN [parser |-> r.parser, thrown |-> r.thrown, advanced |-> Append(fed, Head(toks))]
       ELSE parseFromEveryToken(r.parser, Tail(toks), Append(fed, Head(toks)))

RECURSIVE parseFrom(_, _, _)
\* tokens.forEach(...): an exception of advance ends the iteration
parseFrom(P, toks, fed) ==
  IF toks = <<>> THEN [parser |-> P, thrown |-> "none", advanced |-> fed]
  ELSE IF Head(toks).tokenType # "Whitespace"
  THEN LET r == advance(P, Head(toks)) IN
       IF r.thrown # "none"
       THEN [parser |-> r.parser, thrown |-> r.thrown, advanced |-> Append(fed, Head(toks))]
       ELSE parseFrom(r.parser, Tail(toks), Append(fed, Head(toks)))
  ELSE parseFrom(P, Tail(toks), fed)

parse(P, toks) == parseFrom(P, toks, <<>>)

(***************************************************************************)
(* Spec: one parser on the shared grammar, driven call by call.            *)
(***************************************************************************)
TokenTexts ==
  {<<>>, <<"s">>, sShow, sSet, sInterface, sTest, sHelp,
   <<"p">>, <<"q">>, <<"r">>, sRe, <<"f">>, <<"n">>, <<"m">>, <<"d">>, sDebug, <<"x">>}

\* the partial tokens handed to complete
CompleteTexts == {<<>>, <<"s">>, <<"s", "h">>, sShow, <<"d">>, <<"n">>, <<"x">>}

PriorErrors == {<<>>, <<IncompleteMessage>>}

StartParser(P) ==
  /\ currentNode = P.currentNode
  /\ nodes = P.nodes
  /\ tokens = P.tokens
  /\ commands = P.commands
  /\ parameters = P.parameters

SetParser(P) ==
  /\ currentNode' = P.currentNode
  /\ nodes' = P.nodes
  /\ tokens' = P.tokens
  /\ commands' = P.commands
  /\ parameters' = P.parameters

\* nothing has been called yet
NoReport ==
  /\ op = "new"
  /\ arg = <<>>
  /\ thrown = "none"
  /\ ret = FALSE
  /\ errors = <<>>
  /\ executed = <<>>
  /\ advanced = <<>>
  /\ result = <<>>

\* the grammar is built, and no second parser has been used
SharedStart ==
  /\ graph = BuiltGraph
  /\ other = Parser("root", <<>>, <<>>, <<>>, <<>>)
  /\ calls = <<<<>>, <<>>>>

ReportOnly(o, a, t, r, e, x, f) ==
  /\ op' = o
  /\ arg' = a
  /\ thrown' = t
  /\ ret' = r
  /\ errors' = e
  /\ executed' = x
  /\ advanced' = f
  /\ result' = <<>>

\* what a call reports back to its caller; no call on one parser writes to
\* a node or to another parser
Report(o, a, t, r, e, x, f) ==
  /\ ReportOnly(o, a, t, r, e, x, f)
  /\ UNCHANGED <<graph, other, calls>>

AnswerOnly(o, a, t, v) ==
  /\ op' = o
  /\ arg' = a
  /\ thrown' = t
  /\ result' = v
  /\ ret' = FALSE
  /\ errors' = <<>>
  /\ executed' = <<>>
  /\ advanced' = <<>>

\* what a call that only answers a question returns to its caller
Answer(o, a, t, v) ==
  /\ AnswerOnly(o, a, t, v)
  /\ UNCHANGED <<graph, other, calls>>

Init ==
  /\ StartParser(NewParser("root"))
  /\ source = <<>>
  /\ lexed = tokenize(<<>>)
  /\ pc = "ready"
  /\ NoReport
  /\ SharedStart

Advance ==
  /\ pc = "ready"
  /\ Len(nodes) < MaxHistory
  /\ \E text \in TokenTexts :
       LET r == advance(Self, makeToken(text)) IN
       /\ SetParser(r.parser)
       /\ Report("advance", <<makeToken(text)>>, r.thrown, FALSE, <<>>, <<>>, <<>>)
  /\ UNCHANGED <<source, lexed, pc>>

Verify ==
  /\ pc = "ready"
  /\ \E errorAccumulator \in PriorErrors :
       LET r == verify(Self, errorAccumulator) IN
       Report("verify", errorAccumulator, "none", r.ret, r.errors, <<>>, <<>>)
  /\ UNCHANGED <<parserVars, source, lexed, pc>>

Execute ==
  /\ pc = "ready"
  /\ LET r == execute(Self) IN
     Report("execute", <<>>, r.thrown, FALSE, <<>>, r.executed, <<>>)
  /\ UNCHANGED <<parserVars, source, lexed, pc>>

\* the names a caller asks getParameter for, and the defaults it hands over
ParameterNames == {symbol[x] : x \in {y \in NodeIds : IsParameter(y)}} \cup {<<"z">>}
Defaults == {Undefined, TrueVal}

GetParameter ==
  /\ pc = "ready"
  /\ \E name \in ParameterNames, defaultValue \in Defaults :
       Answer("getParameter", <<name, defaultValue>>, "none",
              getParameter(Self, name, defaultValue))
  /\ UNCHANGED <<parserVars, source, lexed, pc>>

\* complete() that accepts the node when it is the only possible completion
CompleteAccepting ==
  /\ pc = "ready"
  /\ \E token \in {<<>>} \cup {<<makeToken(text)>> : text \in CompleteTexts} :
       LET r == complete(Self, token)
           only == Len(r.completions) = 1 /\ token # <<>> /\ Len(nodes) < MaxHistory
       IN /\ Answer("complete", token, r.thrown, r.completions)
          /\ SetParser(IF only THEN pushNode(Self, token[1], r.completions[1].node)
                       ELSE Self)
  /\ UNCHANGED <<source, lexed, pc>>

\* complete() without a token, or with a partial token
Complete ==
  /\ pc = "ready"
  /\ \E token \in {<<>>} \cup {<<makeToken(text)>> : text \in CompleteTexts} :
       LET r == complete(Self, token) IN
       Answer("complete", token, r.thrown, r.completions)
  /\ UNCHANGED <<parserVars, source, lexed, pc>>

Next == Advance \/ Verify \/ Execute \/ GetParameter \/ Complete

Spec == Init /\ [][Next]_vars

(***************************************************************************)
(* MatchSpec: SymbolNode.match called on every symbol node of the grammar  *)
(* with every text of MatchTexts.                                          *)
(***************************************************************************)
Prefixes(s) == {SubSeq(s, 1, k) : k \in 0..Len(s)}

MatchTexts ==
  UNION {Prefixes(symbol[x]) : x \in NodeIds} \cup
  {sHelp \o <<"e">>, <<"i", "j", "k">>, <<"e", "l">>, <<"s", "t">>, <<"e">>, <<"x">>}

\* a pure function is about to be called with the inputs held in arg
InputsIn(inputs) ==
  /\ StartParser(NewParser("root"))
  /\ source = <<>>
  /\ lexed = tokenize(<<>>)
  /\ pc = "input"
  /\ op = "new"
  /\ arg \in inputs
  /\ thrown = "none"
  /\ ret = FALSE
  /\ errors = <<>>
  /\ executed = <<>>
  /\ advanced = <<>>
  /\ result = <<>>
  /\ SharedStart

MatchInit ==
  InputsIn({<<x, makeToken(text)>> : x \in NodeIds \ {"root"}, text \in MatchTexts})

Match ==
  /\ pc = "input"
  /\ pc' = "done"
  /\ Answer("match", arg, "none", match(arg[1], arg[2]))
  /\ UNCHANGED <<parserVars, source, lexed>>

MatchNext == Match

MatchSpec == MatchInit /\ [][MatchNext]_vars

(***************************************************************************)
(* LcpSpec: longestCommonPrefix called on every list of at most MaxOptions *)
(* strings of at most MaxOptionLen characters over a two-letter alphabet.  *)
(***************************************************************************)
RECURSIVE Strings(_)
Strings(n) ==
  IF n = 0 THEN {<<>>}
  ELSE Strings(n - 1) \cup {Append(s, c) : s \in Strings(n - 1), c \in {"a", "b"}}

RECURSIVE OptionLists(_)
OptionLists(n) ==
  IF n = 0 THEN {<<>>}
  ELSE OptionLists(n - 1) \cup
       {Append(l, s) : l \in OptionLists(n - 1), s \in Strings(MaxOptionLen)}

LcpInit == InputsIn(OptionLists(MaxOptions))

Lcp ==
  /\ pc = "input"
  /\ pc' = "done"
  /\ Answer("longestCommonPrefix", arg, "none", longestCommonPrefix(arg))
  /\ UNCHANGED <<parserVars, source, lexed>>

LcpNext == Lcp

LcpSpec == LcpInit /\ [][LcpNext]_vars

(***************************************************************************)
(* CompletionSpec: new Completion(node, token, options) for every config   *)
(* with at most MaxCompleteOptions complete options and MaxOtherOptions    *)
(* other options, with and without a partial token.                        *)
(***************************************************************************)
OptionWords == {<<"a">>, <<"a", "b">>, <<"a", "a">>, <<"b">>}

RECURSIVE OptionsFrom(_)
OptionsFrom(n) ==
  IF n = 0 THEN {<<>>}
  ELSE OptionsFrom(n - 1) \cup
       {Append(l, s) : l \in OptionsFrom(n - 1), s \in OptionWords}

PartialTokens == {<<>>} \cup {<<makeToken(text)>> : text \in OptionWords \cup {<<>>}}

CompletionInit ==
  InputsIn({<<"show", token, CompletionConfig(e, co, oo)>> :
              token \in PartialTokens,
              e \in {"true", "false", "undefined"},
              co \in OptionsFrom(MaxCompleteOptions),
              oo \in OptionsFrom(MaxOtherOptions)})

NewCompletion ==
  /\ pc = "input"
  /\ pc' = "done"
  /\ Answer("Completion", arg, "none", Completion(arg[1], arg[2], arg[3]))
  /\ UNCHANGED <<parserVars, source, lexed>>

CompletionNext == NewCompletion

CompletionSpec == CompletionInit /\ [][CompletionNext]_vars

(***************************************************************************)
(* BuildSpec: the grammar graph while it is being put together, by         *)
(* addSuccessor on the root, on the wrapper and on a parameter, and by the *)
(* parameter builders on the command "test".                               *)
(***************************************************************************)
addSuccessor(g, x, y) == [g EXCEPT !.successors_[x] = Append(@, y)]

addParameter(g, c, p) == [g EXCEPT !.parameters_[c] = Append(@, p)]

\* buildSimpleParameter and buildFlagParameter
buildPlainParameter(g, p) ==
  addParameter(addSuccessor(g, command[p], p), command[p], p)

RECURSIVE addNameNodes(_, _, _)
\* n.addSuccessor(p); command.addSuccessor(n), for the name and then each alias
addNameNodes(g, p, names) ==
  IF names = <<>> THEN g
  ELSE addNameNodes(addSuccessor(addSuccessor(g, Head(names), p), command[p], Head(names)),
                    p, Tail(names))

buildNamedParameter(g, p) ==
  addParameter(addNameNodes(g, p, nameNodes[p]), command[p], p)

BuildTargets == {"root", "help", "p"}
BuildNodes == {"show", "set"}
BuildParameters == {"p", "f", "n"}

BuildInit ==
  /\ StartParser(NewParser("root"))
  /\ source = <<>>
  /\ lexed = tokenize(<<>>)
  /\ pc = "build"
  /\ NoReport
  /\ graph = EmptyGraph
  /\ other = NewParser("root")
  /\ calls = <<<<>>, <<>>>>

AddSuccessor ==
  /\ pc = "build"
  /\ \E x \in BuildTargets, y \in BuildNodes :
       /\ Len(graph.successors_[x]) < MaxSuccessors
       /\ graph' = addSuccessor(graph, x, y)
       /\ ReportOnly("addSuccessor", <<x, y>>, "none", FALSE, <<>>, <<>>, <<>>)
  /\ UNCHANGED <<parserVars, source, lexed, pc, other, calls>>

BuildParameter ==
  /\ pc = "build"
  /\ \E p \in BuildParameters :
       /\ \A i \in 1..Len(graph.parameters_[command[p]]) :
            graph.parameters_[command[p]][i] # p
       /\ graph' = IF parameterKind[p] = "Named" THEN buildNamedParameter(graph, p)
                   ELSE buildPlainParameter(graph, p)
       /\ ReportOnly("buildParameter", <<p>>, "none", FALSE, <<>>, <<>>, <<>>)
  /\ UNCHANGED <<parserVars, source, lexed, pc, other, calls>>

BuildNext == AddSuccessor \/ BuildParameter

BuildSpec == BuildInit /\ [][BuildNext]_vars

(***************************************************************************)
(* CommandSpec: buildCommand calls on one root node.  The nodes are        *)
(* objects made while building, so the graph is kept as the fields of the  *)
(* objects made so far, object 1 being the RootNode: class[x], symbol[x],  *)
(* handler[x], root[x] (WrapperNode), command[x] (ParameterNode) and the   *)
(* lists successors_[x] and parameters_[x].                                *)
(***************************************************************************)
NoObject == 0
NoHandler == "none"
RootObject == 1

RootOnly ==
  [class |-> <<"RootNode">>, symbol |-> <<<<>>>>, handler |-> <<NoHandler>>,
   root |-> <<NoObject>>, command |-> <<NoObject>>, repeatable |-> <<FALSE>>,
   successors_ |-> <<<<>>>>, parameters_ |-> <<<<>>>>]

\* what a constructor is given: the class and the fields taken from the config
Made(class, sym, h, r, c, rep) ==
  [class |-> class, symbol |-> sym, handler |-> h, root |-> r, command |-> c,
   repeatable |-> rep]

\* new: the object gets the next identity and empty lists
new(g, made) ==
  [class |-> Append(g.class, made.class),
   symbol |-> Append(g.symbol, made.symbol),
   handler |-> Append(g.handler, made.handler),
   root |-> Append(g.root, made.root),
   command |-> Append(g.command, made.command),
   repeatable |-> Append(g.repeatable, made.repeatable),
   successors_ |-> Append(g.successors_, <<>>),
   parameters_ |-> Append(g.parameters_, <<>>)]

Objects(g) == 1..Len(g.class)

\* s instanceof SymbolNode
IsSymbolNode(g, x) ==
  g.class[x] \in {"SymbolNode", "CommandNode", "WrapperNode", "ParameterNameNode",
                  "StringParameterNode", "FlagNode"}

\* the object has CommandNode.addParameter
IsCommandNode(g, x) == g.class[x] \in {"CommandNode", "WrapperNode"}

IsParameterNode(g, x) == g.class[x] \in {"StringParameterNode", "FlagNode"}

RECURSIVE successorsIn(_, _)
\* the successors getter of object x
successorsIn(g, x) ==
  CASE g.class[x] = "WrapperNode" -> successorsIn(g, g.root[x])
    [] IsParameterNode(g, x) ->
         IF g.command[x] # NoObject
         THEN successorsIn(g, g.command[x]) \o g.successors_[x]
         ELSE g.successors_[x]
    [] OTHER -> g.successors_[x]

\* the first successor of node that is a SymbolNode with this symbol, or a
\* newly made one added to node
findOrMakeSuccessor(g, node, name, made) ==
  LET ss == successorsIn(g, node)
      hits == {i \in 1..Len(ss) : IsSymbolNode(g, ss[i]) /\ g.symbol[ss[i]] = name}
  IN IF hits # {}
     THEN [graph |-> g, found |-> ss[CHOOSE i \in hits : \A j \in hits : i <= j]]
     ELSE LET h == new(g, made) IN
          [graph |-> addSuccessor(h, node, Len(h.class)), found |-> Len(h.class)]

\* a CommandNodeConfig and a ParameterNodeConfig
CommandConfig(name, h, nodeConstructor, wrappedRoot, params) ==
  [name |-> name, handler |-> h, nodeConstructor |-> nodeConstructor,
   wrappedRoot |-> wrappedRoot, parameters |-> params]

ParameterConfig(name, k, aliases, rep) ==
  [name |-> name, kind |-> k, aliases |-> aliases, repeatable |-> rep]

RECURSIVE wordTexts(_)
\* tokens.filter(tokenType === Word).map(text)
wordTexts(toks) ==
  IF toks = <<>> THEN <<>>
  ELSE IF Head(toks).tokenType = "Word"
       THEN <<Head(toks).text>> \o wordTexts(Tail(toks))
       ELSE wordTexts(Tail(toks))

RECURSIVE buildNames(_, _, _, _)
\* the loop over the names of the command, from node cur; c is the node the
\* last name ends at
buildNames(g, config, cur, names) ==
  LET made == IF Len(names) = 1
              THEN Made(config.nodeConstructor, Head(names), config.handler,
                        config.wrappedRoot, NoObject, FALSE)
              ELSE Made("SymbolNode", Head(names), NoHandler, NoObject, NoObject, FALSE)
      r == findOrMakeSuccessor(g, cur, Head(names), made)
  IN IF Len(names) = 1 THEN [graph |-> r.graph, c |-> r.found]
     ELSE buildNames(r.graph, config, r.found, Tail(names))

RECURSIVE addNameObjects(_, _, _, _)
\* new ParameterNameNode; n.addSuccessor(p); command.addSuccessor(n), for the
\* name and then each alias
addNameObjects(g, c, p, names) ==
  IF names = <<>> THEN g
  ELSE LET h == new(g, Made("ParameterNameNode", Head(names), NoHandler, NoObject, NoObject,
                            g.repeatable[p]))
           n == Len(h.class)
       IN addNameObjects(addSuccessor(addSuccessor(h, n, p), c, n), c, p, Tail(names))

\* buildFlagParameter, buildSimpleParameter and buildNamedParameter on the
\* node buildCommand ended at: addSuccessor is a method of every node,
\* addParameter of command nodes only
buildParameterOn(g, c, p) ==
  LET h == new(g, Made(IF p.kind = "flag" THEN "FlagNode" ELSE "StringParameterNode",
                       p.name, NoHandler, NoObject, c, p.repeatable))
      x == Len(h.class)
      linked == IF p.kind = "named" THEN addNameObjects(h, c, x, <<p.name>> \o p.aliases)
                ELSE addSuccessor(h, c, x)
      unnamed == new(h, Made("ParameterNameNode", p.name, NoHandler, NoObject, NoObject,
                             p.repeatable))
  IN IF c = NoObject
     THEN [graph |-> IF p.kind = "named" THEN addSuccessor(unnamed, Len(unnamed.class), x)
                     ELSE h,
           thrown |-> "TypeError"]
     ELSE IF ~IsCommandNode(g, c) THEN [graph |-> linked, thrown |-> "TypeError"]
     ELSE [graph |-> addParameter(linked, c, x), thrown |-> "none"]

RECURSIVE buildParameters(_, _, _)
buildParameters(g, c, params) ==
  IF params = <<>> THEN [graph |-> g, thrown |-> "none"]
  ELSE LET r == buildParameterOn(g, c, Head(params)) IN
       IF r.thrown # "none" THEN r
       ELSE buildParameters(r.graph, c, Tail(params))

\* buildCommand(root, config): the graph afterwards, the node returned, and
\* the error thrown on the way
buildCommand(g, config) ==
  LET names == wordTexts(tokenize(config.name).tokens)
      b == IF names = <<>> THEN [graph |-> g, c |-> NoObject]
           ELSE buildNames(g, config, RootObject, names)
      r == buildParameters(b.graph, b.c, config.parameters)
  IN [graph |-> r.graph, c |-> b.c, thrown |-> r.thrown]

\* the commands of the help tests and of the documentation, and the help
\* command as addHelpCommand builds it
CommandConfigs ==
  {CommandConfig(sShow, "h1", "CommandNode", NoObject, <<>>),
   CommandConfig(sShow \o sSpace \o sInterface, "h2", "CommandNode", NoObject,
                 <<ParameterConfig(sRe, "simple", <<>>, TRUE)>>),
   CommandConfig(sShow \o sSpace \o sArp, "h1", "CommandNode", NoObject,
                 <<ParameterConfig(<<"f">>, "flag", <<>>, FALSE),
                   ParameterConfig(<<"n">>, "named", <<<<"m">>>>, FALSE)>>),
   CommandConfig(sShow, "h2", "CommandNode", NoObject,
                 <<ParameterConfig(<<"p">>, "simple", <<>>, FALSE)>>),
   CommandConfig(sHelp, "h1", "WrapperNode", RootObject, <<>>),
   CommandConfig(sHelp \o sSpace \o sArp, "h2", "CommandNode", NoObject, <<>>)}

CommandInit ==
  /\ StartParser(NewParser("root"))
  /\ source = <<>>
  /\ lexed = tokenize(<<>>)
  /\ pc = "command"
  /\ NoReport
  /\ graph = RootOnly
  /\ other = NewParser("root")
  /\ calls = <<<<>>, <<>>>>

\* calls[1] is the list of the buildCommand calls made
BuildCommand ==
  /\ pc = "command"
  /\ Len(calls[1]) < MaxBuilds
  /\ \E config \in CommandConfigs :
       LET r == buildCommand(graph, config) IN
       /\ graph' = r.graph
       /\ calls' = <<Append(calls[1], config), calls[2]>>
       /\ AnswerOnly("buildCommand", <<config>>, r.thrown, r.c)
  /\ UNCHANGED <<parserVars, source, lexed, pc, other>>

CommandNext == BuildCommand

CommandSpec == CommandInit /\ [][CommandNext]_vars

(***************************************************************************)
(* TwoSpec: two parsers created on the same root node, their calls         *)
(* interleaved in every order; each parser takes at most MaxCalls calls.   *)
(***************************************************************************)
Call(o, token) == [op |-> o, token |-> token]

TwoTexts == {sShow, sTest, <<"s">>}

TwoCalls ==
  {Call("advance", <<makeToken(text)>>) : text \in TwoTexts} \cup
  {Call("complete", <<>>), Call("verify", <<>>), Call("execute", <<>>)}

\* one call on parser P: the parser afterwards, and what the caller got
call(P, c) ==
  CASE c.op = "advance" ->
         LET r == advance(P, c.token[1]) IN
         [parser |-> r.parser, out |-> [thrown |-> r.thrown, value |-> <<>>]]
    [] c.op = "complete" ->
         LET r == complete(P, c.token) IN
         [parser |-> P, out |-> [thrown |-> r.thrown, value |-> r.completions]]
    [] c.op = "verify" ->
         LET r == verify(P, <<>>) IN
         [parser |-> P, out |-> [thrown |-> "none", value |-> <<r.ret, r.errors>>]]
    [] OTHER ->
         LET r == execute(P) IN
         [parser |-> P, out |-> [thrown |-> r.thrown, value |-> r.executed]]

TwoInit ==
  /\ StartParser(NewParser("root"))
  /\ source = <<>>
  /\ lexed = tokenize(<<>>)
  /\ pc = "two"
  /\ NoReport
  /\ SharedStart

\* a call on the first parser
StepFirst ==
  /\ pc = "two"
  /\ Len(calls[1]) < MaxCalls
  /\ \E c \in TwoCalls :
       LET r == call(Self, c) IN
       /\ SetParser(r.parser)
       /\ calls' = <<Append(calls[1], [call |-> c, out |-> r.out]), calls[2]>>
       /\ AnswerOnly(c.op, c.token, r.out.thrown, r.out.value)
  /\ UNCHANGED <<source, lexed, pc, graph, other>>

\* a call on the second parser
StepSecond ==
  /\ pc = "two"
  /\ Len(calls[2]) < MaxCalls
  /\ \E c \in TwoCalls :
       LET r == call(other, c) IN
       /\ other' = r.parser
       /\ calls' = <<calls[1], Append(calls[2], [call |-> c, out |-> r.out])>>
       /\ AnswerOnly(c.op, c.token, r.out.thrown, r.out.value)
  /\ UNCHANGED <<parserVars, source, lexed, pc, graph>>

TwoNext == StepFirst \/ StepSecond

TwoSpec == TwoInit /\ [][TwoNext]_vars

(***************************************************************************)
(* UsageSpec: the documented usage sequence on one input line:             *)
(* tokenize, parse, verify and, when verify returned true, execute.        *)
(***************************************************************************)
Pieces ==
  {sShow, <<"s", "h">>, sInterface, sTest, <<"p">>, <<" ">>, <<";">>, <<"|">>, <<"?">>}

RECURSIVE Lines(_)
\* the lines made of at most k pieces
Lines(k) ==
  IF k = 0 THEN {<<>>}
  ELSE Lines(k - 1) \cup {l \o piece : l \in Lines(k - 1), piece \in Pieces}

UsageInit ==
  /\ StartParser(NewParser("root"))
  /\ source \in Lines(MaxPieces)
  /\ lexed = tokenize(<<>>)
  /\ pc = "start"
  /\ NoReport
  /\ SharedStart

UsageTokenize ==
  /\ pc = "start"
  /\ LET r == tokenize(source) IN
     /\ lexed' = r
     /\ pc' = IF r.thrown = "none" THEN "tokenized" ELSE "failed"
     /\ Report("tokenize", <<>>, r.thrown, FALSE, <<>>, <<>>, <<>>)
  /\ UNCHANGED <<parserVars, source>>

UsageParse ==
  /\ pc = "tokenized"
  /\ LET r == parse(Self, lexed.tokens) IN
     /\ SetParser(r.parser)
     /\ pc' = IF r.thrown = "none" THEN "parsed" ELSE "failed"
     /\ Report("parse", lexed.tokens, r.thrown, FALSE, <<>>, <<>>, r.advanced)
  /\ UNCHANGED <<source, lexed>>

UsageVerify ==
  /\ pc = "parsed"
  /\ LET r == verify(Self, <<>>) IN
     /\ pc' = IF r.ret THEN "verified" ELSE "rejected"
     /\ Report("verify", <<>>, "none", r.ret, r.errors, <<>>, <<>>)
  /\ UNCHANGED <<parserVars, source, lexed>>

UsageExecute ==
  /\ pc = "verified"
  /\ LET r == execute(Self) IN
     /\ pc' = "done"
     /\ Report("execute", <<>>, r.thrown, FALSE, <<>>, r.executed, <<>>)
  /\ UNCHANGED <<parserVars, source, lexed>>

UsageNext == UsageTokenize \/ UsageParse \/ UsageVerify \/ UsageExecute

UsageSpec == UsageInit /\ [][UsageNext]_vars

(***************************************************************************)
(* Properties of advance                                                   *)
(***************************************************************************)
\* the token of the advance call that led to the primed state
AdvancedToken == arg'[1]

\* the immediate successors of the current node that are acceptable for the
\* current history and match the token
Candidates(token) ==
  {x \in Range(successors(currentNode)) : acceptable(Self, x) /\ match(x, token)}

\* what accept(token) on node m does to the parser: a command with a handler is
\* registered, a parameter captures the converted token, nothing else changes
Accepted(m, token) ==
  CASE kind[m] \in {"CommandNode", "WrapperNode"} /\ handler[m] ->
         commands' = Append(commands, m) /\ parameters' = parameters
    [] IsParameter(m) ->
         /\ commands' = commands
         /\ DOMAIN parameters' = DOMAIN parameters \cup {symbol[m]}
         /\ \A k \in DOMAIN parameters : k # symbol[m] => parameters'[k] = parameters[k]
         /\ LET captured == IF kind[m] = "FlagNode" THEN TrueVal ELSE StrVal(token.text) IN
            IF repeatable[m]
            THEN /\ parameters'[symbol[m]].tag = "array"
                 /\ Len(parameters'[symbol[m]].items) >= 1
                 /\ parameters'[symbol[m]].items[Len(parameters'[symbol[m]].items)] = captured
            ELSE parameters'[symbol[m]] = captured
    [] OTHER -> commands' = commands /\ parameters' = parameters

\* C1: when exactly one immediate successor of the current node is acceptable
\* and matches the token, advance(token) calls accept on it, appends the
\* (token, node) pair to the history and makes the node the current node.
C1_UniqueMatchIsAccepted ==
  [][op' = "advance" =>
       \A m \in Candidates(AdvancedToken) :
         Candidates(AdvancedToken) = {m} =>
           /\ thrown' = "none"
           /\ currentNode' = m
           /\ nodes' = Append(nodes, m)
           /\ tokens' = Append(tokens, AdvancedToken)
           /\ Accepted(m, AdvancedToken)]_vars

\* a parameter value was captured by an advance that followed other advances
C1_Witness ==
  /\ op = "advance"
  /\ thrown = "none"
  /\ nodes = <<"test", "q", "r">>
  /\ currentNode = "r"
  /\ commands = <<"test">>
  /\ Has(parameters, symbol["r"])

\* C2: when no acceptable successor of the current node matches the token,
\* advance(token) fails with the no-match error and leaves the current node,
\* the history, the matched commands and the captured parameters as they were.
C2_NoMatchLeavesState ==
  [][(op' = "advance" /\ Candidates(AdvancedToken) = {}) =>
       thrown' = "No matches" /\ UNCHANGED parserVars]_vars

\* an advance failed with no match after the parser had already moved
C2_Witness ==
  /\ op = "advance"
  /\ thrown = "No matches"
  /\ Len(nodes) >= 2
  /\ DOMAIN parameters # {}

MatchedCommand == commands[Len(commands)]

\* the required parameters of the matched command without a captured value
MissingRequired ==
  {x \in Range(parameters_[MatchedCommand]) : required[x] /\ ~Has(parameters, symbol[x])}

MissingMessages ==
  LET missing == SelectSeqBy(parameters_[MatchedCommand], MissingRequired) IN
  [i \in 1..Len(missing) |-> MissingMessage(symbol[missing[i]])]

\* C5: after a command has matched, verify returns false whenever a required
\* parameter of the matched command has no captured value, and true only when
\* none is missing.
C5_VerifyFalseWhenMissing ==
  (op = "verify" /\ commands # <<>>) => (ret = (MissingRequired = {}))

\* C6: verify appends one 'Missing required parameter' message for every
\* required parameter of the matched command without a captured value, in
\* declaration order, and no message for an optional or a captured parameter.
C6_AllMissingReported ==
  (op = "verify" /\ commands # <<>>) => errors = arg \o MissingMessages

\* both required parameters are missing, an optional one is captured and the
\* caller's list already held a message
C6_Witness ==
  /\ op = "verify"
  /\ commands = <<"test">>
  /\ Has(parameters, <<"f">>)
  /\ MissingRequired = {"p", "q"}
  /\ arg # <<>>
  /\ Len(errors) = Len(arg) + 2

\* C7: with no matched command verify returns false and appends exactly the
\* message 'Incomplete command.'.
C7_VerifyIncomplete ==
  (op = "verify" /\ commands = <<>>) =>
    ret = FALSE /\ errors = Append(arg, IncompleteMessage)

\* verify was called after "help set", two nodes that register no command
C7_Witness ==
  /\ op = "verify"
  /\ commands = <<>>
  /\ nodes = <<"help", "set">>
  /\ ret = FALSE

\* C8: with no matched command execute fails with 'No command.' and runs no
\* handler.
C8_ExecuteNoCommand ==
  (op = "execute" /\ commands = <<>>) =>
    thrown = "No command." /\ executed = <<>>

\* execute was called after "help", which registers no command
C8_Witness ==
  /\ op = "execute"
  /\ commands = <<>>
  /\ nodes = <<"help">>
  /\ thrown = "No command."

\* C9: when several commands have matched, execute runs exactly one handler,
\* once: the handler of the outermost command, the first one matched.
C9_ExecuteRunsOutermost ==
  (op = "execute" /\ commands # <<>>) =>
    thrown = "none" /\ executed = <<commands[1]>>

(***************************************************************************)
(* Properties of the history                                               *)
(***************************************************************************)
\* C10: every node that is not a repeatable parameter occurs at most once in
\* the history.
C10_NoNodeTwice ==
  \A i, j \in 1..Len(nodes) :
    (i < j /\ nodes[i] = nodes[j]) => (IsParameter(nodes[i]) /\ repeatable[nodes[i]])

\* the parameter p, already captured and offered again by its own successor
\* list, was refused a second value
C10_Witness ==
  /\ op = "advance"
  /\ thrown = "No matches"
  /\ arg[1].text = <<"p">>
  /\ nodeSeen(Self, "p")
  /\ "p" \in Range(successors(currentNode))

(***************************************************************************)
(* Properties of parse                                                     *)
(***************************************************************************)
SpecialTexts == {<<";">>, <<"|">>, <<"?">>}

WordTokens(toks) == SelectSeq(toks, LAMBDA t : t.tokenType = "Word")

\* parse fed advance the Word tokens of toks, in order, up to the first failure
FedWordsInOrder(toks) ==
  IF thrown = "none"
  THEN advanced = WordTokens(toks) /\ tokens = advanced
  ELSE /\ advanced # <<>>
       /\ IsPrefix(advanced, WordTokens(toks))
       /\ tokens = SubSeq(advanced, 1, Len(advanced) - 1)

\* C4 as stated: parse calls advance exactly on the Word tokens, in order,
\* never on a Whitespace token or on one of the one-character tokens for
\* ';', '|' and '?', and stops at the first failure.
C4_ParseSkipsSpecial ==
  op = "parse" =>
    /\ FedWordsInOrder(arg)
    /\ \A i \in 1..Len(advanced) :
         advanced[i].tokenType # "Whitespace" /\ advanced[i].text \notin SpecialTexts

\* C4 as amended: parse calls advance exactly on the Word tokens, in order, and
\* never on a Whitespace token; the one-character tokens for ';', '|' and '?'
\* are Word tokens and are handed to advance; it stops at the first failure.
C4_ParseFeedsWords ==
  op = "parse" =>
    /\ FedWordsInOrder(arg)
    /\ \A i \in 1..Len(advanced) : advanced[i].tokenType # "Whitespace"
    /\ \A i \in 1..Len(arg) : arg[i].text \in SpecialTexts => arg[i].tokenType = "Word"
    /\ (thrown = "none" =>
          \A i \in 1..Len(arg) :
            arg[i].text \in SpecialTexts => \E j \in 1..Len(advanced) : advanced[j] = arg[i])

\* "show ;" : advance was called on show, not on the blank, and then on ';'
C4_Witness ==
  /\ op = "parse"
  /\ Len(arg) = 3
  /\ arg[2].tokenType = "Whitespace"
  /\ Len(advanced) = 2
  /\ advanced[2].text = <<";">>
  /\ nodes = <<"show">>

\* the values the history shows as captured by node x, in capture order
RECURSIVE CapturedFrom(_, _)
CapturedFrom(x, i) ==
  IF i > Len(nodes) THEN <<>>
  ELSE (IF nodes[i] = x THEN <<convert(x, tokens[i])>> ELSE <<>>) \o CapturedFrom(x, i + 1)

Captured(x) == CapturedFrom(x, 1)

\* C11: a repeatable parameter stays on offer after every capture, and
\* getParameter(name) returns the list of all the values captured for it in
\* this invocation, in capture order (one element per capture).
C11_RepeatableCollects ==
  \A x \in NodeIds :
    IsParameter(x) /\ repeatable[x] /\ nodeSeen(Self, x) =>
      /\ x \in Range(successors(currentNode)) =>
           x \in Range(matchingSuccessors(Self, currentNode, makeToken(symbol[x])))
      /\ op = "getParameter" /\ arg[1] = symbol[x] =>
           /\ result = ListVal(Captured(x))
           /\ Len(result.items) = Cardinality({i \in 1..Len(nodes) : nodes[i] = x})

\* the repeatable parameter was captured three times with different words
\* and then asked for
C11_Witness ==
  /\ op = "getParameter"
  /\ arg[1] = symbol["r"]
  /\ nodes = <<"test", "r", "r", "r">>
  /\ result = ListVal(<<StrVal(<<"r">>), StrVal(sRe), StrVal(<<"r">>)>>)

\* the name and alias nodes that lead to the named parameter p
NameNodesOf(p) ==
  {x \in NodeIds : kind[x] = "ParameterNameNode" /\ p \in Range(successors_[x])}

\* C12: once the value of a non-repeatable named parameter has been
\* captured, none of its name or alias nodes is acceptable again, and none
\* is accepted later in the invocation.
C12_NamedParameterOnlyOnce ==
  \A p \in NodeIds :
    IsParameter(p) /\ ~repeatable[p] /\ nodeSeen(Self, p) =>
      /\ \A x \in NameNodesOf(p) : ~acceptable(Self, x)
      /\ \A i, j \in 1..Len(nodes) :
           i < j /\ nodes[i] = p => nodes[j] \notin NameNodesOf(p)

\* C13: a ParameterNode matches every token whatever its text: a word
\* offered where a parameter is an acceptable successor is matched by that
\* parameter, so advance never refuses it for lack of a match.
C13_ParameterMatchesEveryToken ==
  op = "advance" /\ thrown # "none" =>
    /\ \A x \in Range(successors(currentNode)) :
         kind[x] = "ParameterNode" /\ acceptable(Self, x) => match(x, arg[1])
    /\ (\E x \in Range(successors(currentNode)) :
           kind[x] = "ParameterNode" /\ acceptable(Self, x)) => thrown # "No matches"

\* t is what is left of s when some tail of s is cut off
IsLeadingPart(t, s) == \E k \in 0..Len(s) : t = SubSeq(s, 1, k)

\* C14 as stated: match is true exactly when the token's text is a
\* non-empty prefix of the node's symbol.
C14_MatchNonEmptyPrefix ==
  op = "match" =>
    (result <=> (arg[2].text # <<>> /\ IsLeadingPart(arg[2].text, symbol[arg[1]])))

\* C14 amended: match is true exactly when the token's text is a prefix of
\* the node's symbol, the empty text included.
C14_MatchPrefix ==
  op = "match" => (result <=> IsLeadingPart(arg[2].text, symbol[arg[1]]))

\* the empty text was matched against "help" and the answer was true
C14_Witness ==
  /\ op = "match"
  /\ arg[1] = "help"
  /\ arg[2].text = <<>>
  /\ result = TRUE

\* C15: getParameter(name, default) returns the captured value whenever a
\* value was captured for name, whatever that value is, and the default only
\* when no value was captured for name.
C15_GetParameterReturnsCaptured ==
  op = "getParameter" =>
    result = IF Has(parameters, arg[1]) THEN parameters[arg[1]] ELSE arg[2]

(***************************************************************************)
(* Properties of complete                                                  *)
(***************************************************************************)
\* C16: a hidden node is never among the completions, with or without a
\* partial token, but advance accepts it when its symbol or a non-empty prefix
\* of its symbol is typed where it is a successor not yet in the history.
C16_HiddenNotCompletedButAccepted ==
  [][/\ op' = "complete" =>
          \A k \in 1..Len(result') : ~hidden_[result'[k].node]
     /\ op' = "advance" =>
          \A x \in Range(successors(currentNode)) :
            /\ hidden_[x]
            /\ ~nodeSeen(Self, x)
            /\ AdvancedToken.text # <<>>
            /\ IsLeadingPart(AdvancedToken.text, symbol[x])
            => thrown' = "none" /\ currentNode' = x]_vars

\* after "help", completing "d" offers nothing although the hidden command
\* debug is the one successor that advance would accept for "d"
C16_Witness ==
  /\ op = "complete"
  /\ currentNode = "help"
  /\ arg = <<makeToken(<<"d">>)>>
  /\ result = <<>>
  /\ Candidates(arg[1]) = {"debug"}
  /\ hidden_["debug"]

\* the positions, in the successor list of the current node, of the nodes
\* that complete(token?) has to answer for
EligiblePositions ==
  {i \in 1..Len(successors(currentNode)) :
     LET x == successors(currentNode)[i] IN
     /\ ~hidden_[x]
     /\ acceptable(Self, x)
     /\ (arg = <<>> \/ IsLeadingPart(arg[1].text, symbol[x]))}

\* the k-th eligible position
EligibleAt(k) ==
  CHOOSE i \in EligiblePositions :
    Cardinality({j \in EligiblePositions : j < i}) = k - 1

\* C17: complete(token?) returns exactly one Completion for each immediate
\* successor of the current node that is not hidden, is acceptable and (when a
\* token is given) matches the token, in successor order, and nothing else.
C17_CompleteEligibleSuccessors ==
  op = "complete" /\ thrown = "none" =>
    /\ Len(result) = Cardinality(EligiblePositions)
    /\ \A k \in 1..Len(result) :
         /\ result[k].node = successors(currentNode)[EligibleAt(k)]
         /\ result[k].token = arg

\* completion after test and p: p is no longer offered, the other five are,
\* in successor order
C17_Witness ==
  /\ op = "complete"
  /\ arg = <<>>
  /\ nodes = <<"test", "p">>
  /\ Len(result) = 5
  /\ result[1].node = "q"
  /\ result[5].node = "n.alias"

\* C18: completing a SymbolNode or CommandNode yields a Completion marked
\* exhaustive whose only option is the node's symbol, tagged complete, both
\* without a token and with a partial token that is a proper prefix of the
\* symbol.
C18_SymbolCompletionExhaustive ==
  op = "complete" /\ thrown = "none" =>
    \A k \in 1..Len(result) :
      /\ kind[result[k].node] \in {"CommandNode", "WrapperNode", "ParameterNameNode"}
      /\ \/ arg = <<>>
         \/ /\ IsLeadingPart(arg[1].text, symbol[result[k].node])
            /\ arg[1].text # symbol[result[k].node]
      => /\ result[k].exhaustive = "true"
         /\ result[k].options = <<CompletionOption(symbol[result[k].node], TRUE)>>

(***************************************************************************)
(* Properties of longestCommonPrefix                                       *)
(***************************************************************************)
\* C19: longestCommonPrefix returns "" for the empty list and otherwise the
\* longest string that is a prefix of every element: a list with an empty
\* string gives "", a one-element list gives its element, and the result is
\* never longer than the shortest element.
C19_LongestCommonPrefix ==
  op = "longestCommonPrefix" =>
    IF arg = <<>> THEN result = <<>>
    ELSE /\ \A k \in 1..Len(arg) : IsLeadingPart(result, arg[k])
         /\ \A m \in (Len(result) + 1)..Len(arg[1]) :
              \E k \in 1..Len(arg) : ~IsLeadingPart(SubSeq(arg[1], 1, m), arg[k])
         /\ (\E k \in 1..Len(arg) : arg[k] = <<>>) => result = <<>>
         /\ Len(arg) = 1 => result = arg[1]
         /\ \A k \in 1..Len(arg) : Len(result) <= Len(arg[k])

\* three options whose shortest element is the common prefix
C19_Witness ==
  /\ op = "longestCommonPrefix"
  /\ arg = <<<<"a", "b">>, <<"a", "a">>, <<"a">>>>
  /\ result = <<"a">>

(***************************************************************************)
(* LexSpec: tokenize called on every text of at most MaxChars characters   *)
(* over an alphabet with a letter, the capital S, a blank, the special     *)
(* characters, the double quote and the backslash.                         *)
(***************************************************************************)
Chars == {"a", "S", " ", ";", "|", "?", "\"", "\\"}

RECURSIVE Texts(_)
Texts(n) ==
  IF n = 0 THEN {<<>>}
  ELSE Texts(n - 1) \cup {Append(s, c) : s \in Texts(n - 1), c \in Chars}

LexInit ==
  /\ StartParser(NewParser("root"))
  /\ source \in Texts(MaxChars)
  /\ lexed = tokenize(<<>>)
  /\ pc = "start"
  /\ NoReport
  /\ SharedStart

LexNext == UsageTokenize

LexSpec == LexInit /\ [][LexNext]_vars

(***************************************************************************)
(* Properties of tokenize                                                  *)
(***************************************************************************)
RECURSIVE Concat(_)
\* the texts of the tokens, one after the other
Concat(toks) == IF toks = <<>> THEN <<>> ELSE Head(toks).text \o Concat(Tail(toks))

\* C20: whenever tokenize(text) returns, its tokens cover the whole input
\* without gaps or overlaps: the first starts at offset 0, each starts one past
\* the end of the one before, the last ends at length-1, and the token texts
\* concatenated give the text back.
C20_TokensCoverInput ==
  op = "tokenize" /\ thrown = "none" =>
    LET toks == lexed.tokens IN
    /\ Concat(toks) = source
    /\ toks = <<>> => source = <<>>
    /\ toks # <<>> =>
         /\ toks[1].startChar = 0
         /\ toks[Len(toks)].endChar = Len(source) - 1
         /\ \A k \in 1..(Len(toks) - 1) : toks[k + 1].startChar = toks[k].endChar + 1

\* How a reader of the text sees position i (the mode after the first i
\* characters): "plain" outside quotes, "escape" right after a backslash
\* outside quotes, "quoted" inside a quoted region, "quotedEscape" right after
\* a backslash inside one.
RECURSIVE ModeAfter(_, _)
ModeAfter(text, i) ==
  IF i = 0 THEN "plain"
  ELSE LET m == ModeAfter(text, i - 1)
           c == text[i]
       IN CASE m = "plain" ->
                 IF c = "\"" THEN "quoted" ELSE IF c = "\\" THEN "escape" ELSE "plain"
            [] m = "escape" -> "plain"
            [] m = "quoted" ->
                 IF c = "\"" THEN "plain" ELSE IF c = "\\" THEN "quotedEscape" ELSE "quoted"
            [] OTHER -> "quoted"

\* the character at 0-based offset i is read in this mode
ModeAt(i) == ModeAfter(source, i)

Returned == op = "tokenize" /\ thrown = "none"

\* C21: every returned token has start <= end inside the text, its text is
\* the substring from start to end inclusive, and a token that opens with a
\* double quote also ends with the closing double quote.
C21_TokenTextIsSubstring ==
  Returned =>
    \A k \in 1..Len(lexed.tokens) :
      LET t == lexed.tokens[k] IN
      /\ 0 <= t.startChar
      /\ t.startChar <= t.endChar
      /\ t.endChar < Len(source)
      /\ t.text = SubSeq(source, t.startChar + 1, t.endChar + 1)
      /\ source[t.startChar + 1] = "\"" =>
           /\ t.endChar > t.startChar
           /\ source[t.endChar + 1] = "\""
           /\ ModeAt(t.endChar) = "quoted"

\* a quoted word between two letters was tokenized
C21_Witness ==
  /\ Returned
  /\ source = <<"\"", "a", "\"", "a">>
  /\ Len(lexed.tokens) = 2
  /\ lexed.tokens[1].text = <<"\"", "a", "\"">>

SpecialChars == {";", "|", "?"}

\* C22: every ';', '|' or '?' outside a quoted region and not escaped is a
\* one-character token of its own (and so ends the token before it).
C22_SpecialIsOwnToken ==
  Returned =>
    \A i \in 0..(Len(source) - 1) :
      source[i + 1] \in SpecialChars /\ ModeAt(i) = "plain" =>
        \E k \in 1..Len(lexed.tokens) :
          lexed.tokens[k].startChar = i /\ lexed.tokens[k].endChar = i

\* C23: a backslash in a word or in a quoted region followed by any one
\* character is accepted, and both characters stay in one token.
C23_EscapeAcceptsAnyCharacter ==
  op = "tokenize" =>
    /\ thrown # "Character not allowed here."
    /\ thrown = "none" =>
         \A i \in 0..(Len(source) - 2) :
           source[i + 1] = "\\" /\ ModeAt(i) \in {"plain", "quoted"} =>
             \E k \in 1..Len(lexed.tokens) :
               lexed.tokens[k].startChar <= i /\ i + 1 <= lexed.tokens[k].endChar

\* C24: when the text ends right after a backslash that started an escape
\* in a word, tokenize raises the dangling-escape error and returns nothing.
C24_DanglingEscapeRaises ==
  op = "tokenize" /\ thrown # "Character not allowed here."
                  /\ ModeAt(Len(source)) = "escape" =>
    /\ thrown = "Escaping backslash at end of file."
    /\ lexed.tokens = <<>>

\* C25: when the text ends inside a quoted region, after an ordinary
\* character or after a backslash, tokenize raises the unterminated-quote
\* error.
C25_UnterminatedQuoteRaises ==
  op = "tokenize" /\ thrown # "Character not allowed here."
                  /\ ModeAt(Len(source)) \in {"quoted", "quotedEscape"} =>
    thrown = "Unclosed double quote at end of file."

\* C26: inside a quoted region a backslash-escaped double quote does not
\* close the region: the token runs on to the next unescaped double quote and
\* holds the backslash and the escaped quote as they were written.
C26_EscapedQuoteStaysInside ==
  op = "tokenize" /\ thrown # "Character not allowed here." =>
    \A i \in 1..(Len(source) - 1) :
      ModeAt(i) = "quotedEscape" /\ source[i + 1] = "\"" =>
        /\ ModeAt(Len(source)) = "plain" => thrown = "none"
        /\ thrown = "none" =>
             \E k \in 1..Len(lexed.tokens) :
               LET t == lexed.tokens[k] IN
               /\ t.startChar < i - 1
               /\ i < t.endChar
               /\ t.text[i - t.startChar] = "\\"
               /\ t.text[i - t.startChar + 1] = "\""
               /\ source[t.endChar + 1] = "\""
               /\ ModeAt(t.endChar) = "quoted"

\* the text is a quoted region that holds nothing but an escaped quote
C26_Witness ==
  /\ Returned
  /\ source = <<"\"", "\\", "\"", "\"">>
  /\ Len(lexed.tokens) = 1
  /\ lexed.tokens[1].text = source

\* C27: each maximal run of whitespace outside quotes is exactly one
\* Whitespace token, and no two adjacent tokens are both Whitespace.
C27_WhitespaceCoalesced ==
  Returned =>
    /\ \A k \in 1..(Len(lexed.tokens) - 1) :
         ~(lexed.tokens[k].tokenType = "Whitespace" /\
           lexed.tokens[k + 1].tokenType = "Whitespace")
    /\ \A i \in 0..(Len(source) - 1) :
         IsSpace(source[i + 1]) /\ ModeAt(i) = "plain" =>
           \E k \in 1..Len(lexed.tokens) :
             LET t == lexed.tokens[k] IN
             /\ t.tokenType = "Whitespace"
             /\ t.startChar <= i /\ i <= t.endChar
             /\ \A j \in t.startChar..t.endChar : IsSpace(source[j + 1])
             /\ t.startChar > 0 => ~IsSpace(source[t.startChar])
             /\ t.endChar < Len(source) - 1 => ~IsSpace(source[t.endChar + 2])

\* two blanks between two words came back as one Whitespace token
C27_Witness ==
  /\ Returned
  /\ source = <<"a", " ", " ", "a">>
  /\ Len(lexed.tokens) = 3
  /\ lexed.tokens[2].tokenType = "Whitespace"
  /\ lexed.tokens[2].text = <<" ", " ">>

(***************************************************************************)
(* Properties of the grammar graph                                         *)
(***************************************************************************)
SuccessorsNow(x) == successorsOf(graph.successors_, x)

\* C29: at all times the successor list of a WrapperNode is the current
\* successor list of the node it wraps, whatever was added to that node after
\* the wrapper was made.
C29_WrapperMirrorsWrapped ==
  \A w \in NodeIds :
    kind[w] = "WrapperNode" /\ ~IsParameter(root[w]) /\ kind[root[w]] # "WrapperNode" =>
      SuccessorsNow(w) = graph.successors_[root[w]]

\* the root got a second successor while the wrapper's own list holds
\* something else
C29_Witness ==
  /\ op = "addSuccessor"
  /\ arg = <<"root", "set">>
  /\ graph.successors_["root"] = <<"show", "set">>
  /\ graph.successors_["help"] = <<"set">>
  /\ SuccessorsNow("help") = <<"show", "set">>

\* the parameters attached to command c by addParameter
Attached(c) == {graph.parameters_[c][i] : i \in 1..Len(graph.parameters_[c])}

ListOfCommandThenOwn(p) ==
  SuccessorsNow(p) = SuccessorsNow(command[p]) \o graph.successors_[p]

\* C30 as stated: a parameter's successor list is its command's list
\* followed by its own, and every parameter attached to the command, the
\* parameter itself included, is in it.
C30_EveryParameterAmongSuccessors ==
  \A p \in NodeIds :
    IsParameter(p) /\ command[p] # NoNode /\ p \in Attached(command[p]) =>
      /\ ListOfCommandThenOwn(p)
      /\ \A q \in Attached(command[p]) : q \in Range(SuccessorsNow(p))

\* C30 amended: a parameter's successor list is its command's list followed
\* by its own; every simple or flag parameter the builders attached to the
\* command, the parameter itself included, is in it, and for a named
\* parameter its name and alias nodes are in it, each leading to the
\* parameter.
C30_PlainParametersAmongSuccessors ==
  \A p \in NodeIds :
    IsParameter(p) /\ command[p] # NoNode /\ p \in Attached(command[p]) =>
      /\ ListOfCommandThenOwn(p)
      /\ \A q \in Attached(command[p]) :
           IF parameterKind[q] = "Named"
           THEN \A x \in Range(nameNodes[q]) :
                  x \in Range(SuccessorsNow(p)) /\ q \in Range(SuccessorsNow(x))
           ELSE q \in Range(SuccessorsNow(p))

\* p and the named parameter n are attached, and p has a successor of its own
C30_Witness ==
  /\ graph.parameters_["test"] = <<"p", "n">>
  /\ graph.successors_["p"] = <<"show">>
  /\ SuccessorsNow("p") = <<"p", "n.name", "n.alias", "show">>
  /\ SuccessorsNow("n") = <<"p", "n.name", "n.alias">>

(***************************************************************************)
(* Properties of parsers that share a grammar                              *)
(***************************************************************************)
RECURSIVE AloneFrom(_, _)
\* a parser that starts as P and takes the calls of log with no other parser
\* around: where it ends, and whether every call returned what the log says
AloneFrom(P, log) ==
  IF log = <<>> THEN [parser |-> P, same |-> TRUE]
  ELSE LET r == call(P, Head(log).call)
           rest == AloneFrom(r.parser, Tail(log))
       IN [parser |-> rest.parser, same |-> r.out = Head(log).out /\ rest.same]

\* C28: parsers that share one grammar graph are independent: no call
\* changes a list of a node, and under every interleaving each parser is in
\* the state, and got the results, that its own calls give when it runs alone.
C28_SharedGraphIndependence ==
  /\ graph = BuiltGraph
  /\ AloneFrom(NewParser("root"), calls[1]) = [parser |-> Self, same |-> TRUE]
  /\ AloneFrom(NewParser("root"), calls[2]) = [parser |-> other, same |-> TRUE]

\* both parsers accepted the same command node, one after the other
C28_Witness ==
  /\ pc = "two"
  /\ nodes = <<"test">>
  /\ other.nodes = <<"test">>
  /\ Len(calls[1]) = 2
  /\ Len(calls[2]) = 2
  /\ calls[2][2].call.op = "execute"
  /\ calls[2][2].out.value = <<"test">>

(***************************************************************************)
(* Claims about buildCommand (CommandSpec)                                 *)
(***************************************************************************)
\* the nodes buildCommand makes for the words of a command name
IsCommandWord(x) == graph.class[x] \in {"SymbolNode", "CommandNode", "WrapperNode"}

\* C31: after any sequence of buildCommand calls no node has, among the
\* successors added to it, two nodes made for the same command word: commands
\* whose names share leading words share the nodes of those words.
C31_SharedPrefixNodes ==
  \A x \in Objects(graph) :
    \A i, j \in 1..Len(graph.successors_[x]) :
      i # j /\ IsCommandWord(graph.successors_[x][i])
            /\ IsCommandWord(graph.successors_[x][j]) =>
        graph.symbol[graph.successors_[x][i]] # graph.symbol[graph.successors_[x][j]]

(***************************************************************************)
(* Frame properties of the parser state (Spec)                             *)
(***************************************************************************)
\* the step accepted a parameter node and captured a value for it
CapturedNow ==
  /\ op' = "advance"
  /\ Len(nodes') = Len(nodes) + 1
  /\ IsParameter(nodes'[Len(nodes')])

\* C32: capturing a value for one parameter leaves the captured value of
\* every other parameter name as it was, so getParameter of another name
\* returns after the capture what it returned before it.
C32_OtherParametersKept ==
  [][CapturedNow =>
       \A name \in ParameterNames \ {symbol[nodes'[Len(nodes')]]} :
         /\ Has(parameters', name) = Has(parameters, name)
         /\ Get(parameters', name) = Get(parameters, name)
         /\ \A d \in Defaults :
              getParameter(Self', name, d) = getParameter(Self, name, d)]_vars

\* p was captured and then q, and both values are there
C32_Witness ==
  /\ op = "advance"
  /\ nodes = <<"test", "p", "q">>
  /\ Get(parameters, <<"p">>) = StrVal(<<"p">>)
  /\ Get(parameters, <<"q">>) = StrVal(<<"q">>)

\* the last word of the name of a command config
LastWord(config) ==
  LET names == wordTexts(tokenize(config.name).tokens) IN names[Len(names)]

\* C33: every buildCommand call ends at a CommandNode for the last word of
\* its name, and that node carries the handler of the call, whatever was built
\* before it.
C33_EndsAtCommandWithHandler ==
  op = "buildCommand" =>
    /\ result # NoObject
    /\ IsCommandNode(graph, result)
    /\ graph.symbol[result] = LastWord(arg[1])
    /\ graph.handler[result] = arg[1].handler

\* C34: after any sequence of advances the matched-command stack lists, in
\* order, exactly the command nodes of the history, wrapper commands
\* included.
C34_CommandsAreHistoryCommands ==
  commands = SelectSeqBy(nodes, {x \in NodeIds : kind[x] \in {"CommandNode", "WrapperNode"}})

(***************************************************************************)
(* Properties of the Completion constructor (CompletionSpec)               *)
(***************************************************************************)
\* the options of list that begin with the text of the partial token
LeftAfterFiltering(list) ==
  IF arg[2] = <<>> THEN list
  ELSE SelectSeqBy(list, {o \in Range(list) : IsLeadingPart(arg[2][1].text, o)})

\* how many incomplete options of the Completion, and how many of the given
\* other options, are the string s
IncompleteCount(s) ==
  Cardinality({k \in 1..Len(result.options) :
                 result.options[k] = CompletionOption(s, FALSE)})

GivenCount(s) ==
  Cardinality({k \in 1..Len(LeftAfterFiltering(arg[3].otherOptions)) :
                 LeftAfterFiltering(arg[3].otherOptions)[k] = s})

\* C35: with a partial token, the text of the token is added as an
\* incomplete option exactly when the completion is not exhaustive and the
\* text is not among the options left after prefix filtering.
C35_TokenTextAddedUnlessExhaustive ==
  op = "Completion" /\ arg[2] # <<>> =>
    LET text == arg[2][1].text
        added == IncompleteCount(text) = GivenCount(text) + 1
        kept == IncompleteCount(text) = GivenCount(text)
        due == /\ arg[3].exhaustive # "true"
               /\ text \notin Range(LeftAfterFiltering(arg[3].completeOptions))
               /\ text \notin Range(LeftAfterFiltering(arg[3].otherOptions))
    IN IF due THEN added ELSE kept

\* the longest string that is a leading part of every element of list
CommonLeadingPart(list) ==
  IF list = <<>> THEN <<>>
  ELSE CHOOSE s \in {SubSeq(list[1], 1, k) : k \in 0..Len(list[1])} :
         /\ \A i \in 1..Len(list) : IsLeadingPart(s, list[i])
         /\ \A k \in (Len(s) + 1)..Len(list[1]) :
              \E i \in 1..Len(list) : ~IsLeadingPart(SubSeq(list[1], 1, k), list[i])

\* the option list of a Completion with these complete and other options
OptionList(completes, others) ==
  [k \in 1..Len(completes) |-> CompletionOption(completes[k], TRUE)] \o
  [k \in 1..Len(others) |-> CompletionOption(others[k], FALSE)]

\* C36: the longest common prefix of the combined option list (the filtered
\* complete and other options, with the token's text where it was added) is
\* appended as one more incomplete option exactly when it is non-empty, is
\* not among the combined options and is not the text of the partial token;
\* otherwise the options are the combined list as it was.
C36_CommonPrefixAdded ==
  op = "Completion" =>
    LET completes == LeftAfterFiltering(arg[3].completeOptions)
        given == LeftAfterFiltering(arg[3].otherOptions)
        others == IF arg[2] # <<>> /\ IncompleteCount(arg[2][1].text) > GivenCount(arg[2][1].text)
                  THEN Append(given, arg[2][1].text)
                  ELSE given
        lcp == CommonLeadingPart(completes \o others)
        due == /\ lcp # <<>>
               /\ lcp \notin Range(completes \o others)
               /\ (arg[2] = <<>> \/ lcp # arg[2][1].text)
    IN result.options = IF due THEN OptionList(completes, Append(others, lcp))
                        ELSE OptionList(completes, others)

\* 'ab' and 'aa' without a token: their common prefix 'a' is added
C36_Witness ==
  /\ op = "Completion"
  /\ arg[2] = <<>>
  /\ arg[3].completeOptions = <<<<"a", "b">>, <<"a", "a">>>>
  /\ arg[3].otherOptions = <<>>
  /\ result.options = <<CompletionOption(<<"a", "b">>, TRUE),
                        CompletionOption(<<"a", "a">>, TRUE),
                        CompletionOption(<<"a">>, FALSE)>>

RECURSIVE ReachableWithin(_, _, _)
\* the objects reached from frontier along successor edges that stay among
\* the allowed objects
ReachableWithin(allowed, frontier, seen) ==
  LET next == (UNION {Range(successorsIn(graph, x)) : x \in frontier} \cap allowed) \ seen
  IN IF next = {} THEN seen
     ELSE ReachableWithin(allowed, next, seen \cup next)

\* x lies on a cycle of successor edges that stays among the allowed objects
OnCycleWithin(allowed, x) == x \in ReachableWithin(allowed, {x}, {})

\* the nodes a cycle may pass through: repeatable nodes and the name and
\* alias nodes of named parameters
CycleNodes ==
  {x \in Objects(graph) : graph.repeatable[x] \/ graph.class[x] = "ParameterNameNode"}

\* C37: in every graph built by the builder each cycle of successor edges
\* passes through a repeatable node or a name or alias node, and no
\* non-repeatable simple parameter and no command is reachable from itself.
C37_CyclesOnlyThroughRepeatable ==
  /\ \A x \in Objects(graph) \ CycleNodes :
       ~OnCycleWithin(Objects(graph) \ CycleNodes, x)
  /\ \A x \in Objects(graph) :
       \/ graph.class[x] = "StringParameterNode" /\ ~graph.repeatable[x]
       \/ IsCommandNode(graph, x)
       => ~OnCycleWithin(Objects(graph), x)

(***************************************************************************)
(* The verify-then-execute protocol (UsageSpec)                            *)
(***************************************************************************)
\* C38: whenever verify returns true a command has matched, and the execute
\* that follows it with no advance in between does not fail with
\* 'No command.': it runs the last matched command.
C38_VerifiedExecuteHasCommand ==
  [][/\ op' = "verify" /\ ret' => Len(commands') > 0
     /\ op = "verify" /\ ret /\ op' = "execute" =>
          /\ thrown' # "No command."
          /\ executed' = <<commands[Len(commands)]>>]_vars

\* a line was parsed, verify returned true and execute ran its command
C38_Witness ==
  /\ pc = "done"
  /\ op = "execute"
  /\ thrown = "none"
  /\ nodes = <<"show", "interface">>
  /\ executed = <<"interface">>

(***************************************************************************)
(* The history of the parser (Spec)                                        *)
(***************************************************************************)
\* C39: the node history and the token history have the same length, which
\* grows by one with every successful advance and with nothing else, and the
\* current node is the root while the history is empty and the last node of
\* the history afterwards.
C39_HistoryLengthsAndCurrentNode ==
  [][/\ op = "new" => nodes = <<>> /\ tokens = <<>> /\ currentNode = "root"
     /\ Len(nodes') = Len(tokens')
     /\ Len(nodes') = Len(nodes) + (IF op' = "advance" /\ thrown' = "none" THEN 1 ELSE 0)
     /\ currentNode' = IF nodes' = <<>> THEN "root" ELSE nodes'[Len(nodes')]]_vars

\* two advances succeeded and a third one failed: the history still has two
\* entries and the current node is the second
C39_Witness ==
  /\ op = "advance"
  /\ thrown = "No matches"
  /\ nodes = <<"show", "interface">>
  /\ Len(tokens) = 2
  /\ currentNode = "interface"

\* C40: complete, verify and getParameter leave the current node, the
\* histories, the matched-command stack and the captured parameters as they
\* were; verify returns the caller's error list with messages appended at its
\* end only, and after a complete the advance with the completed token (or
\* with a command word, when none was given) does what it would have done
\* before it.
C40_QueriesLeaveStateUnchanged ==
  [][op' \in {"complete", "verify", "getParameter"} =>
       /\ currentNode' = currentNode
       /\ nodes' = nodes
       /\ tokens' = tokens
       /\ commands' = commands
       /\ parameters' = parameters
       /\ op' = "verify" => IsLeadingPart(arg', errors')
       /\ op' = "complete" =>
            \A text \in (IF arg' = <<>> THEN {sShow} ELSE {arg'[1].text}) :
              advance(Self', makeToken(text)) = advance(Self, makeToken(text))]_vars

\* complete was called after an advance and offered the one successor
C40_Witness ==
  /\ op = "complete"
  /\ nodes = <<"show">>
  /\ arg = <<>>
  /\ Len(result) = 1
  /\ result[1].node = "interface"

====
